---------------------------- MODULE Spec2Model ----------------------------
(***************************************************************************)
(* A model of the acyclicloader package: New (definition checks and cycle  *)
(* detection), the concurrent Load protocol over the per-loader mutex and  *)
(* condition variable, and the derivations WithOverwrites and Clone.       *)
(***************************************************************************)
EXTENDS Integers, Sequences, FiniteSets, Bags, TLC

(***************************************************************************)
(* Bounds of the model.                                                    *)
(***************************************************************************)
\* the calls of Load, WithOverwrites and Clone the program makes after New
MaxCalls == 3

\* the calls of Load made by a program that derives no loader
MaxLoads == 2

\* the fields of the struct parameter of a constructor given to New
MaxFields == 2

(***************************************************************************)
(* Names, types and constructor definitions.                               *)
(***************************************************************************)
\* every name that is used, in the order sort.Strings gives them
SortedNames == <<"A", "B", "C", "D", "Plus7", "StaticInt", "Z">>

Range(s) == {s[k] : k \in DOMAIN s}

\* func() T, func() (T, error), func(struct{...}) T, ...: what reflect sees
Func(in, out) == [kind |-> "func", in |-> in, out |-> out]

\* a struct parameter with the given fields
Struct(fields) == [kind |-> "struct", fields |-> fields]

Field(name, type) == [Name |-> name, Type |-> type]

\* the reflect.Type of the error interface
typeOfError == "error"

\* a nil reflect.Type: the component has no result
NoType == "<nil>"

\* A depends on B and C, B depends on C, and the leaf C cannot fail
Triangle ==
    [A |-> Func(<<Struct(<<Field("B", "int"), Field("C", "int")>>)>>, <<"int">>),
     B |-> Func(<<Struct(<<Field("C", "int")>>)>>, <<"int">>),
     C |-> Func(<<>>, <<"int">>)]

\* the same graph with a leaf C of the shape func() (int, error)
FallibleTriangle ==
    [Triangle EXCEPT !.C = Func(<<>>, <<"int", typeOfError>>)]

\* the two components of TestAcyclicLoader
TestComponents ==
    [StaticInt |-> Func(<<>>, <<"int">>),
     Plus7 |-> Func(<<Struct(<<Field("StaticInt", "int")>>)>>, <<"int">>)]

\* A depends on B and C, which do not depend on each other
Fork ==
    [A |-> Func(<<Struct(<<Field("B", "int"), Field("C", "int")>>)>>, <<"int">>),
     B |-> Func(<<>>, <<"int">>),
     C |-> Func(<<>>, <<"int">>)]

\* the components of TestAcyclicLoader with a StaticInt that can fail
FallibleTest ==
    [TestComponents EXCEPT !.StaticInt = Func(<<>>, <<"int", typeOfError>>)]

\* one constructor of each shape New accepts: A returns a value and an
\* error and depends on D, B returns an error only, C returns nothing, and
\* D returns a value only
Shapes ==
    [A |-> Func(<<Struct(<<Field("D", "int")>>)>>, <<"int", typeOfError>>),
     B |-> Func(<<>>, <<typeOfError>>),
     C |-> Func(<<>>, <<>>),
     D |-> Func(<<>>, <<"int">>)]

\* the component mappings given to New
LoadMappings == {Triangle, FallibleTriangle}


(***************************************************************************)
(* New: the definition checks, in the order of the sorted names.           *)
(***************************************************************************)
\* a *ComponentDefinitionError; message names the check that failed
ComponentDefinitionError(component, message, cycle) ==
    [Component |-> component, message |-> message, cycle |-> cycle]

\* New's error result when every check passes
NoDefinitionError == ComponentDefinitionError("", "", <<>>)

\* the names of the mapping, sorted
componentNames(components) ==
    SelectSeq(SortedNames, LAMBDA n : n \in DOMAIN components)

\* the first error of a sequence of check results, or no error
FirstError(errs) ==
    LET bad == {k \in DOMAIN errs : errs[k] # NoDefinitionError}
    IN  IF bad = {} THEN NoDefinitionError
        ELSE errs[CHOOSE k \in bad : \A j \in bad : k <= j]

\* the result type New stores for a function definition
resultOf(fn) ==
    CASE Len(fn.out) = 1 /\ fn.out[1] # typeOfError -> fn.out[1]
      [] Len(fn.out) = 2 -> fn.out[1]
      [] OTHER -> NoType

\* the first loop of New: the definition is a function with at most two
\* results, the second of them an error
populateError(components, name) ==
    LET fn == components[name]
    IN  CASE fn.kind = "nil" ->
               ComponentDefinitionError(name, "found nil", <<>>)
          [] fn.kind # "nil" /\ fn.kind # "func" ->
               ComponentDefinitionError(name, "not a function", <<>>)
          [] fn.kind = "func" /\ Len(fn.out) = 2 /\ fn.out[2] # typeOfError ->
               ComponentDefinitionError(name, "2nd result is not an error", <<>>)
          [] fn.kind = "func" /\ Len(fn.out) > 2 ->
               ComponentDefinitionError(name, "more than 2 results", <<>>)
          [] OTHER -> NoDefinitionError

\* the check of one dependency field against the component it names
fieldError(components, name, field) ==
    IF field.Name \notin DOMAIN components
    THEN ComponentDefinitionError(name, "depends on undefined component", <<>>)
    ELSE IF resultOf(components[field.Name]) # field.Type
    THEN IF resultOf(components[field.Name]) = NoType
         THEN ComponentDefinitionError(name, "panic: nil reflect.Type", <<>>)
         ELSE ComponentDefinitionError(name, "type mismatch", <<>>)
    ELSE NoDefinitionError

\* the second loop of New: at most one parameter, a struct, whose fields
\* name components of the field's type
dependencyError(components, name) ==
    LET fn == components[name]
    IN  CASE Len(fn.in) = 0 -> NoDefinitionError
          [] Len(fn.in) > 1 ->
               ComponentDefinitionError(name, "more than 1 input parameter", <<>>)
          [] Len(fn.in) = 1 /\ fn.in[1].kind # "struct" ->
               ComponentDefinitionError(name, "input parameter is not a struct", <<>>)
          [] OTHER ->
               FirstError([k \in DOMAIN fn.in[1].fields |->
                              fieldError(components, name, fn.in[1].fields[k])])

\* component.dependencies: the field names of the struct parameter
dependenciesOf(fn) ==
    IF Len(fn.in) = 0 THEN <<>>
    ELSE [k \in DOMAIN fn.in[1].fields |-> fn.in[1].fields[k].Name]

\* a detectCycles that reports the whole path walked so far
cycleWholePath(path, i, dep) == Append(path, dep)

\* append(path[i:], dep), with the index i counted from one
cycleFrom(path, i, dep) == Append(SubSeq(path, i, Len(path)), dep)

RECURSIVE detectCycles(_, _, _)
RECURSIVE detectCyclesFrom(_, _, _, _)
\* the loop of detectCycles from the k-th dependency of c on
detectCyclesFrom(deps, c, path, k) ==
    IF k > Len(deps[c]) THEN <<>>
    ELSE LET dep  == deps[c][k]
             hits == {i \in DOMAIN path : path[i] = dep}
         IN  IF hits # {}
             THEN cycleFrom(path, CHOOSE i \in hits : \A j \in hits : i <= j, dep)
             ELSE LET ret == detectCycles(deps, dep, Append(path, dep))
                  IN  IF ret # <<>> THEN ret
                      ELSE detectCyclesFrom(deps, c, path, k + 1)

\* the cycle found by a depth-first walk from c along path, or <<>>
detectCycles(deps, c, path) == detectCyclesFrom(deps, c, path, 1)

\* a cycle check that looks at the direct dependencies of name only
cycleErrorDirect(deps, name) ==
    IF name \in Range(deps[name])
    THEN ComponentDefinitionError(name, "dependency cycle detected", <<name, name>>)
    ELSE NoDefinitionError

\* the third loop of New
cycleError(deps, name) ==
    LET cycle == detectCycles(deps, name, <<name>>)
    IN  IF cycle = <<>> THEN NoDefinitionError
        ELSE ComponentDefinitionError(cycle[1], "dependency cycle detected", cycle)

\* New(components): the error, or the dependencies of the loader it returns
New(components) ==
    LET names == componentNames(components)
        e1    == FirstError([k \in DOMAIN names |->
                                populateError(components, names[k])])
        e2    == FirstError([k \in DOMAIN names |->
                                dependencyError(components, names[k])])
        deps  == [n \in DOMAIN components |-> dependenciesOf(components[n])]
        e3    == FirstError([k \in DOMAIN names |-> cycleError(deps, names[k])])
        err   == IF e1 # NoDefinitionError THEN e1
                 ELSE IF e2 # NoDefinitionError THEN e2 ELSE e3
    IN  [err |-> err,
         dependencies |-> IF err = NoDefinitionError THEN deps
                          ELSE [n \in {} |-> <<>>]]


(***************************************************************************)
(* The state of a program that builds one loader with New, derives others  *)
(* from it, and calls Load from any number of goroutines.                  *)
(***************************************************************************)
VARIABLES
    fn,            \* component.fn: the definitions given to New, shared
    dependencies,  \* component.dependencies, shared by all loaders
    components,    \* components[a][name]: the address of the *component of loader a
    heap,          \* the component structs: value, err, loaded, loading
    m,             \* m[a]: the mutex of loader a is held
    tasks,         \* the goroutines that are inside Load, as a bag
    panicked,      \* a goroutine panicked: the program has crashed
    calls,         \* calls of Load, WithOverwrites and Clone made by the program
    ctorCalls,     \* ctorCalls[<<a, name>>]: calls of the constructor on loader a
    ret,           \* ret[<<a, name>>]: the (value, err) pairs Load(name) returned
    origin,        \* origin[a]: how loader a was made, and from which cells
    built          \* whether New was called, and the error it returned

vars == <<fn, dependencies, components, heap, m, tasks, panicked,
          calls, ctorCalls, ret, origin, built>>

Loaders == 1 .. Len(components)

\* the names Load is called with: the components and an undefined name
Names == DOMAIN fn \cup {"Z"}

\* the names of the components of the loaders
Comps == DOMAIN fn

\* the nil interface{} value
Nil == 0

\* what a constructor may read from its environment when it is called
Environments == {1, 2}

\* the overwrite maps given to WithOverwrites: one component overwritten
OverwriteMaps ==
    {v \in {"C" :> 3, "B" :> 3, "StaticInt" :> 7, "Plus7" :> 3} :
        DOMAIN v \subseteq DOMAIN fn}

\* error values: nil, the error a constructor returned, and the two error
\* types of errors.go
NoErr == [kind |-> "nil", trace |-> <<>>, cause |-> ""]

ConstructorError(name) == [kind |-> "constructor", trace |-> <<>>, cause |-> name]

\* an error that does not say which component was asked for
UndefinedComponentErrorUnnamed(name) ==
    [kind |-> "UndefinedComponentError", trace |-> <<>>, cause |-> ""]

UndefinedComponentError(name) ==
    [kind |-> "UndefinedComponentError", trace |-> <<>>, cause |-> name]

DependencyLoadError(trace, err) ==
    [kind |-> "DependencyLoadError", trace |-> trace, cause |-> err.cause]

\* e.extend(component): the same error with component put before the trace
extend(e, component) ==
    [kind |-> "DependencyLoadError", trace |-> <<component>> \o e.trace,
     cause |-> e.cause]

\* a component struct
Cell(value, err, loaded, loading) ==
    [value |-> value, err |-> err, loaded |-> loaded, loading |-> loading]

\* the component struct New makes
NewCell == Cell(Nil, NoErr, FALSE, FALSE)

\* a.components[name]
cell(a, name) == heap[components[a][name]]

Pending(c) == ~c.loaded /\ ~c.loading
InFlight(c) == ~c.loaded /\ c.loading
IsDone(c) == c.loaded

\* a goroutine inside a.Load(component)
Task(a, component, pc, i, in) ==
    [a |-> a, component |-> component, pc |-> pc, i |-> i, in |-> in]

Result(value, err) == [value |-> value, err |-> err]


(***************************************************************************)
(* Load: the sections it runs with the mutex held.                         *)
(***************************************************************************)
\* the error Load stores when the dependency dep ended with err
wrap(component, dep, err) ==
    IF err.kind = "DependencyLoadError" THEN extend(err, component)
    ELSE DependencyLoadError(<<component, dep>>, err)

RECURSIVE waitWithoutWaiting(_, _, _, _)
\* a loop that takes the value of every dependency as it is, loaded or not
waitWithoutWaiting(a, name, i, in) ==
    IF i > Len(dependencies[name])
    THEN [pc |-> "call", i |-> i, in |-> in, err |-> NoErr]
    ELSE waitWithoutWaiting(a, name, i + 1,
                            Append(in, cell(a, dependencies[name][i]).value))

RECURSIVE waitForDependencies(_, _, _, _)
\* the loop that waits for the dependencies of name from the i-th on, run
\* until it calls Wait ("wait"), finds an error ("failed") or ends ("call");
\* input.Field(i).Set(reflect.ValueOf(nil)) panics: Set on the zero Value
waitForDependencies(a, name, i, in) ==
    IF i > Len(dependencies[name])
    THEN [pc |-> "call", i |-> i, in |-> in, err |-> NoErr]
    ELSE LET dep == dependencies[name][i]
             d   == cell(a, dep)
         IN  IF ~d.loaded
             THEN [pc |-> "wait", i |-> i, in |-> in, err |-> NoErr]
             ELSE IF d.err # NoErr
             THEN [pc |-> "failed", i |-> i, in |-> in,
                   err |-> wrap(name, dep, d.err)]
             ELSE IF d.value = Nil
             THEN [pc |-> "panic", i |-> i, in |-> in, err |-> NoErr]
             ELSE waitForDependencies(a, name, i + 1, Append(in, d.value))

\* a Load that starts the goroutine of one dependency only
dispatchedFirst(a, name) ==
    LET idx == {k \in DOMAIN dependencies[name] :
                   ~cell(a, dependencies[name][k]).loading}
    IN  IF idx = {} THEN {}
        ELSE {dependencies[name][CHOOSE k \in idx : \A j \in idx : k <= j]}

\* the dependencies of name for which Load starts a goroutine
dispatched(a, name) ==
    {dep \in Range(dependencies[name]) : ~cell(a, dep).loading}

\* a Load that does not unlock the mutex before it calls the constructor
heldDuringCall(pc) == pc = "call"

\* whether the mutex stays held when the section ends at pc: Wait and the
\* Unlock before the call release it, and so does the deferred Unlock
held(pc) == FALSE

\* a.c.Broadcast(): every goroutine waiting on the condition of a wakes
Broadcast(a, B) ==
    LET wake(t) == IF t.a = a /\ t.pc = "wait" THEN [t EXCEPT !.pc = "woken"] ELSE t
        img     == {wake(t) : t \in DOMAIN B}
        cnt(x)  == (IF x \in DOMAIN B /\ wake(x) = x THEN B[x] ELSE 0)
                   + (LET w == [x EXCEPT !.pc = "wait"]
                      IN  IF x.pc = "woken" /\ x.a = a /\ w \in DOMAIN B
                          THEN B[w] ELSE 0)
    IN  [x \in img |-> cnt(x)]

\* Load returns (value, err) to whoever called it
Return(a, name, value, err) ==
    ret' = [ret EXCEPT ![<<a, name>>] = @ \cup {Result(value, err)}]

\* the end of Load: the result is stored, the waiters are woken, Load returns
Finish(h, a, name, value, err, B) ==
    /\ heap' = [h EXCEPT ![components[a][name]] =
                   [@ EXCEPT !.loaded = TRUE, !.value = value, !.err = err]]
    /\ tasks' = Broadcast(a, B)
    /\ Return(a, name, heap'[components[a][name]].value,
                       heap'[components[a][name]].err)
    /\ m' = [m EXCEPT ![a] = FALSE]

\* Load from the loop that waits for the dependencies on; B holds the other
\* goroutines
Continue(a, name, i, in, B) ==
    LET w == waitForDependencies(a, name, i, in)
    IN  CASE w.pc = "wait" ->
               /\ tasks' = B (+) SetToBag({Task(a, name, "wait", w.i, w.in)})
               /\ m' = [m EXCEPT ![a] = held("wait")]
               /\ UNCHANGED <<heap, ret, ctorCalls, panicked>>
          [] w.pc = "call" ->
               /\ heap' = [heap EXCEPT ![components[a][name]].loading = TRUE]
               /\ tasks' = B (+) SetToBag({Task(a, name, "call", w.i, w.in)})
               /\ ctorCalls' = [ctorCalls EXCEPT ![<<a, name>>] = @ + 1]
               /\ m' = [m EXCEPT ![a] = held("call")]
               /\ UNCHANGED <<ret, panicked>>
          [] w.pc = "failed" ->
               \* no call: c.loading is set and value stays nil
               /\ Finish([heap EXCEPT ![components[a][name]].loading = TRUE],
                         a, name, Nil, w.err, B)
               /\ UNCHANGED <<ctorCalls, panicked>>
          [] w.pc = "panic" ->
               \* the deferred Unlock runs and the program crashes
               /\ panicked' = TRUE
               /\ tasks' = B
               /\ UNCHANGED <<heap, ret, ctorCalls, m>>

\* whether Load returns the stored result at once
cached(c) == c.loaded

\* Load from its start, with the mutex taken
Enter(a, name, B) ==
    IF name \notin DOMAIN components[a]
    THEN /\ Return(a, name, Nil, UndefinedComponentError(name))
         /\ tasks' = B
         /\ UNCHANGED <<heap, ctorCalls, m, panicked>>
    ELSE IF cached(cell(a, name))
    THEN /\ Return(a, name, cell(a, name).value, cell(a, name).err)
         /\ tasks' = B
         /\ UNCHANGED <<heap, ctorCalls, m, panicked>>
    ELSE Continue(a, name, 1, <<>>,
                  B (+) SetToBag({Task(a, dep, "start", 1, <<>>) :
                                     dep \in dispatched(a, name)}))


(***************************************************************************)
(* The call of the constructor and what Load makes of its results.         *)
(***************************************************************************)
\* the position of a name in the sorted names
Index(name) == CHOOSE k \in DOMAIN SortedNames : SortedNames[k] = name

RECURSIVE Encode(_, _)
\* a number that determines acc and the values of in
Encode(acc, in) ==
    IF in = <<>> THEN acc ELSE Encode(acc * 1000 + Head(in), Tail(in))

\* the value the constructor of name computes from its argument record in;
\* one without dependencies returns what it reads from its environment
ConstructorValue(name, env, in) ==
    IF in = <<>> THEN env ELSE Encode(Index(name), in)

\* c.fn.Call(in): one reflect.Value for each declared result
Call(name, env, in, fails) ==
    [k \in DOMAIN fn[name].out |->
        IF fn[name].out[k] = typeOfError
        THEN (IF fails THEN ConstructorError(name) ELSE NoErr)
        ELSE ConstructorValue(name, env, in)]

\* x.Interface().(error): the assertion panics on a nil interface
assertError(x) == [panic |-> x = NoErr, err |-> x]

\* the (value, err) Load takes out of the results, or the panic
interpret(name, results) ==
    IF resultOf(fn[name]) # NoType
    THEN IF Len(results) > 1
         THEN [value |-> results[1]] @@ assertError(results[2])
         ELSE [value |-> results[1], panic |-> FALSE, err |-> NoErr]
    ELSE IF Len(results) = 1
    THEN [value |-> Nil] @@ assertError(results[1])
    ELSE [value |-> Nil, panic |-> FALSE, err |-> NoErr]

(***************************************************************************)
(* The steps of the goroutines.                                            *)
(***************************************************************************)
\* the program calls a.Load(name); the call runs until it waits, calls the
\* constructor or returns
Load(a, name) ==
    /\ ~panicked
    /\ calls < MaxCalls
    /\ ~m[a]
    /\ calls' = calls + 1
    /\ Enter(a, name, tasks)
    /\ UNCHANGED <<fn, dependencies, components, origin, built>>

\* a goroutine started by "go a.Load(dep)" takes the mutex
Start(t) ==
    /\ ~panicked
    /\ t.pc = "start"
    /\ ~m[t.a]
    /\ Enter(t.a, t.component, tasks (-) SetToBag({t}))
    /\ UNCHANGED <<fn, dependencies, components, calls, origin, built>>

\* a goroutine woken by Broadcast takes the mutex again inside Wait
Wake(t) ==
    /\ ~panicked
    /\ t.pc = "woken"
    /\ ~m[t.a]
    /\ Continue(t.a, t.component, t.i, t.in, tasks (-) SetToBag({t}))
    /\ UNCHANGED <<fn, dependencies, components, calls, origin, built>>

\* the constructor returns to Load, which takes the mutex and finishes
ConstructorReturns(t, env, fails) ==
    /\ ~panicked
    /\ t.pc = "call"
    /\ fails => typeOfError \in Range(fn[t.component].out)
    /\ LET r == interpret(t.component, Call(t.component, env, t.in, fails))
       IN  IF r.panic
           THEN /\ panicked' = TRUE
                /\ UNCHANGED <<heap, tasks, ret, m>>
           ELSE /\ ~m[t.a]
                /\ Finish(heap, t.a, t.component, r.value, r.err,
                          tasks (-) SetToBag({t}))
                /\ UNCHANGED panicked
    /\ UNCHANGED <<fn, dependencies, components, calls, ctorCalls, origin, built>>


(***************************************************************************)
(* WithOverwrites and Clone.                                               *)
(***************************************************************************)
\* a WithOverwrites that keeps the component struct of its source
overwrittenComponentShared(a2, c) == c

\* "&component{...}" in WithOverwrites: the address of the struct that the
\* new loader a2 gets for the struct at address c of its source
overwrittenComponent(a2, c) == <<a2, c[2]>>

\* a Clone that keeps the component struct of its source
clonedComponentShared(a2, c) == c

\* "&component{...}" in Clone
clonedComponent(a2, c) == <<a2, c[2]>>

RECURSIVE needsPurging(_, _)
\* the component is overwritten or depends on a component that is
needsPurging(values, component) ==
    \/ component \in DOMAIN values
    \/ \E k \in DOMAIN dependencies[component] :
          needsPurging(values, dependencies[component][k])

\* a WithOverwrites that purges every component it does not overwrite
overwrittenPurgingAll(values, name, c) ==
    Cell(IF name \in DOMAIN values THEN values[name] ELSE Nil, NoErr,
         c.loaded, c.loaded)

\* the component struct WithOverwrites makes from the struct c of name
overwritten(values, name, c) ==
    LET kept  == ~needsPurging(values, name)
        value == IF name \in DOMAIN values THEN values[name]
                 ELSE IF kept THEN c.value ELSE Nil
        err   == IF name \in DOMAIN values THEN NoErr
                 ELSE IF kept THEN c.err ELSE NoErr
    IN  Cell(value, err, c.loaded, c.loaded)

\* a Clone that copies the loading flag of its source
clonedWithLoading(c) == Cell(c.value, c.err, c.loaded, c.loading)

\* the component struct Clone makes from the struct c
cloned(c) == Cell(c.value, c.err, c.loaded, c.loaded)

\* the new loader, with the struct cells[name] at the address cs[name]
Derive(a, op, values, cs, cells) ==
    LET a2 == Len(components) + 1
    IN  /\ ~panicked
        /\ calls < MaxCalls
        /\ ~m[a]
        /\ calls' = calls + 1
        /\ components' = Append(components, cs)
        /\ heap' = [x \in DOMAIN heap \cup Range(cs) |->
                      IF \E name \in DOMAIN cs : cs[name] = x
                      THEN cells[CHOOSE name \in DOMAIN cs : cs[name] = x]
                      ELSE heap[x]]
        /\ m' = Append(m, FALSE)
        /\ origin' = Append(origin,
               [op |-> op, a |-> a, values |-> values,
                from |-> [name \in DOMAIN components[a] |-> cell(a, name)]])
        /\ ctorCalls' = [x \in DOMAIN ctorCalls \cup ({a2} \X Comps) |->
                           IF x \in DOMAIN ctorCalls THEN ctorCalls[x] ELSE 0]
        /\ ret' = [x \in DOMAIN ret \cup ({a2} \X Names) |->
                     IF x \in DOMAIN ret THEN ret[x] ELSE {}]
        /\ UNCHANGED <<fn, dependencies, tasks, panicked, built>>

\* a.WithOverwrites(values)
WithOverwrites(a, values) ==
    Derive(a, "WithOverwrites", values,
           [name \in DOMAIN components[a] |->
               overwrittenComponent(Len(components) + 1, components[a][name])],
           [name \in DOMAIN components[a] |->
               overwritten(values, name, cell(a, name))])

\* a.Clone()
Clone(a) ==
    Derive(a, "Clone", [n \in {} |-> Nil],
           [name \in DOMAIN components[a] |->
               clonedComponent(Len(components) + 1, components[a][name])],
           [name \in DOMAIN components[a] |-> cloned(cell(a, name))])

(***************************************************************************)
(* The specification.                                                      *)
(***************************************************************************)
\* the program has called New on one of the mappings and got a loader
InitOf(mappings) ==
    \E mapping \in mappings :
        /\ New(mapping).err = NoDefinitionError
        /\ fn = mapping
        /\ dependencies = New(mapping).dependencies
        /\ components = <<[name \in DOMAIN mapping |-> <<1, name>>]>>
        /\ heap = [x \in {1} \X DOMAIN mapping |-> NewCell]
        /\ m = <<FALSE>>
        /\ tasks = EmptyBag
        /\ panicked = FALSE
        /\ calls = 0
        /\ ctorCalls = [x \in {1} \X DOMAIN mapping |-> 0]
        /\ ret = [x \in {1} \X Names |-> {}]
        /\ origin = <<[op |-> "New", a |-> 0, values |-> [n \in {} |-> Nil],
                       from |-> [n \in {} |-> NewCell]]>>
        /\ built = [called |-> TRUE, err |-> NoDefinitionError]

Init == InitOf(LoadMappings)

Next ==
    \/ \E a \in Loaders, name \in Names : Load(a, name)
    \/ \E t \in DOMAIN tasks : Start(t)
    \/ \E t \in DOMAIN tasks : Wake(t)
    \/ \E t \in DOMAIN tasks, env \in Environments, fails \in BOOLEAN :
          ConstructorReturns(t, env, fails)
    \/ \E a \in Loaders, values \in OverwriteMaps : WithOverwrites(a, values)
    \/ \E a \in Loaders : Clone(a)

Spec == Init /\ [][Next]_vars

\* the same program on the loader of TestAcyclicLoader
InitTest == InitOf({TestComponents})

SpecTest == InitTest /\ [][Next]_vars

\* a program that calls Load and derives no loader
NextLoad ==
    \/ \E a \in Loaders, name \in Names : calls < MaxLoads /\ Load(a, name)
    \/ \E t \in DOMAIN tasks : Start(t)
    \/ \E t \in DOMAIN tasks : Wake(t)
    \/ \E t \in DOMAIN tasks, env \in Environments, fails \in BOOLEAN :
          ConstructorReturns(t, env, fails)

\* that program on a loader with two independent dependencies
InitFork == InitOf({Fork})

SpecFork == InitFork /\ [][NextLoad]_vars

\* the program that calls Load on a loader with a constructor of each shape
InitShapes == InitOf({Shapes})

SpecShapes == InitShapes /\ [][NextLoad]_vars

\* the whole program on the loader of TestAcyclicLoader, with a StaticInt
\* that cannot fail or with one that can
InitFallible == InitOf({TestComponents, FallibleTest})

SpecFallible == InitFallible /\ [][Next]_vars

\* a step of some goroutine that is inside Load
TaskStep ==
    \E t \in DOMAIN tasks :
        \/ Start(t)
        \/ Wake(t)
        \/ \E env \in Environments, fails \in BOOLEAN :
              ConstructorReturns(t, env, fails)

\* the scheduler runs every goroutine that can run, and every constructor
\* that was called returns
SpecLive == InitFallible /\ [][Next]_vars /\ WF_vars(TaskStep)


(***************************************************************************)
(* The program before New: the mappings it may give to New.                *)
(***************************************************************************)
\* the sequences of at most n different elements of S
Arrangements(S, n) ==
    UNION {{s \in [1 .. k -> S] : \A i, j \in 1 .. k : i # j => s[i] # s[j]} :
              k \in 0 .. n}

\* the field lists of a struct parameter: fields of different names
FieldLists(names, types) ==
    UNION {{[k \in DOMAIN ns |-> Field(ns[k], ts[k])] : ts \in [DOMAIN ns -> types]} :
              ns \in Arrangements(names, MaxFields)}

\* a constructor with these dependency fields and these results
Definition(fields, out) ==
    Func(IF fields = <<>> THEN <<>> ELSE <<Struct(fields)>>, out)

\* any dependencies between three components of type int
GraphMappings ==
    [{"A", "B", "C"} ->
        {Definition(f, <<"int">>) : f \in FieldLists({"A", "B", "C"}, {"int"})}]

\* the result shapes New accepts
Outs == {<<>>, <<"int">>, <<typeOfError>>, <<"int", typeOfError>>}

\* two components of any result shape, with fields of two types that may
\* name a component that is not defined
TypedMappings ==
    [{"A", "B"} ->
        {Definition(f, out) : f \in FieldLists({"A", "B", "Z"}, {"int", "string"}),
                              out \in Outs}]

NewMappings == GraphMappings \cup TypedMappings

\* the mapping of TestCyclicDependencies
CyclicDependencies ==
    [A |-> Definition(<<Field("B", "int")>>, <<"int">>),
     B |-> Definition(<<Field("C", "int")>>, <<"int">>),
     C |-> Definition(<<Field("B", "int")>>, <<"int">>)]

\* the mapping of TestLongCyclicDependencies
LongCyclicDependencies ==
    [CyclicDependencies EXCEPT !.C = Definition(<<Field("A", "int")>>, <<"int">>)]

\* the A of TestSelfDependency, beside two components without dependencies
SelfDependency ==
    [A |-> Definition(<<Field("A", "int")>>, <<"int">>),
     B |-> Definition(<<>>, <<"int">>),
     C |-> Definition(<<>>, <<"int">>)]

\* building the message of the type mismatch calls String on a nil Type
panics(e) == e.message = "panic: nil reflect.Type"

\* the program calls New(fn): it returns an error, or the loader 1
Build ==
    LET r == New(fn)
    IN  /\ ~built.called
        /\ IF panics(r.err)
           THEN /\ panicked' = TRUE
                /\ built' = [called |-> TRUE, err |-> NoDefinitionError]
                /\ UNCHANGED <<dependencies, components, heap, m, ctorCalls,
                               ret, origin>>
           ELSE IF r.err # NoDefinitionError
           THEN /\ built' = [called |-> TRUE, err |-> r.err]
                /\ UNCHANGED <<dependencies, components, heap, m, ctorCalls,
                               ret, origin, panicked>>
           ELSE /\ built' = [called |-> TRUE, err |-> NoDefinitionError]
                /\ dependencies' = r.dependencies
                /\ components' = <<[name \in DOMAIN fn |-> <<1, name>>]>>
                /\ heap' = [x \in {1} \X DOMAIN fn |-> NewCell]
                /\ m' = <<FALSE>>
                /\ ctorCalls' = [x \in {1} \X DOMAIN fn |-> 0]
                /\ ret' = [x \in {1} \X Names |-> {}]
                /\ origin' = <<[op |-> "New", a |-> 0, values |-> [n \in {} |-> Nil],
                                from |-> [n \in {} |-> NewCell]]>>
                /\ UNCHANGED panicked
        /\ UNCHANGED <<fn, tasks, calls>>

\* the program holds a mapping and has no loader yet
InitNew ==
    /\ fn \in NewMappings
    /\ dependencies = <<>>
    /\ components = <<>>
    /\ heap = <<>>
    /\ m = <<>>
    /\ tasks = EmptyBag
    /\ panicked = FALSE
    /\ calls = 0
    /\ ctorCalls = <<>>
    /\ ret = <<>>
    /\ origin = <<>>
    /\ built = [called |-> FALSE, err |-> NoDefinitionError]

NextNew == Build

SpecNew == InitNew /\ [][NextNew]_vars


(***************************************************************************)
(* What the properties speak of.                                           *)
(***************************************************************************)
RECURSIVE dependsOn(_, _)
\* name depends on x, directly or through other components
dependsOn(name, x) ==
    \E k \in DOMAIN dependencies[name] :
        dependencies[name][k] = x \/ dependsOn(dependencies[name][k], x)

\* trace leads from d to x along dependencies
IsDependencyPath(trace, d, x) ==
    /\ Len(trace) >= 2
    /\ trace[1] = d
    /\ trace[Len(trace)] = x
    /\ \A k \in 1 .. Len(trace) - 1 :
          trace[k + 1] \in Range(dependencies[trace[k]])

\* a step of a goroutine that is inside a.Load, or that enters it
StepOf(a) ==
    \/ \E name \in Names : Load(a, name)
    \/ \E t \in DOMAIN tasks :
          /\ t.a = a
          /\ \/ Start(t)
             \/ Wake(t)
             \/ \E env \in Environments, fails \in BOOLEAN :
                   ConstructorReturns(t, env, fails)

\* the argument record of name, read from the cells of loader a
Arguments(a, name) ==
    [k \in DOMAIN dependencies[name] |-> cell(a, dependencies[name][k]).value]

(***************************************************************************)
(* C1 to C4: loading on one loader.                                        *)
(***************************************************************************)
\* C1: on every loader the constructor of each component is called at most
\* once, whatever Loads run concurrently.
C1_ConstructorAtMostOnce ==
    \A x \in DOMAIN ctorCalls : ctorCalls[x] <= 1

\* C2: once a Load of a component has returned, a Load of it that is called
\* later returns the same value and error as every Load before it, starts no
\* goroutine and calls no constructor.
C2_LaterLoadReturnsCached ==
    [][\A a \in Loaders, name \in Comps :
          (Load(a, name) /\ ret[<<a, name>>] # {}) =>
              /\ Cardinality(ret[<<a, name>>]) = 1
              /\ ret'[<<a, name>>] = ret[<<a, name>>]
              /\ tasks' = tasks
              /\ ctorCalls' = ctorCalls]_vars

\* C3: New succeeds on the mapping with every component Pending, and what
\* Load returns for a component on that loader without an error is a value
\* its constructor gives for the values Load returns for its dependencies.
C3_LoadReturnsConstructedValue ==
    /\ New(fn).err = NoDefinitionError
    /\ calls = 0 => \A name \in Comps : Pending(cell(1, name))
    /\ \A name \in Comps : \A r \in ret[<<1, name>>] :
          r.err = NoErr =>
              /\ \A dep \in Range(dependencies[name]) :
                    cell(1, dep).loaded /\ cell(1, dep).err = NoErr
              /\ \E env \in Environments :
                    r.value = ConstructorValue(name, env, Arguments(1, name))

\* C4: when the constructor of x has failed on a loader, every Load of a
\* component d that depends on x (and is not replaced by an overwrite value)
\* returns a DependencyLoadError whose trace leads from d to x, and the
\* constructor of d is never called.
C4_FailurePropagates ==
    \A a \in Loaders : \A x \in Comps :
        (cell(a, x).loaded /\ cell(a, x).err = ConstructorError(x)) =>
            \A d \in Comps \ DOMAIN origin[a].values :
                dependsOn(d, x) =>
                    /\ ctorCalls[<<a, d>>] = 0
                    /\ \A r \in ret[<<a, d>>] :
                          /\ r.err.kind = "DependencyLoadError"
                          /\ IsDependencyPath(r.err.trace, d, x)


(***************************************************************************)
(* C5 to C10: the loaders WithOverwrites and Clone return.                 *)
(***************************************************************************)
\* the loaders WithOverwrites returned
Overwrites == {a \in Loaders : origin[a].op = "WithOverwrites"}

\* the loaders Clone returned
Clones == {a \in Loaders : origin[a].op = "Clone"}

\* C5: in a loader WithOverwrites returned, a component that is a key of the
\* values is Done with that value and no error, Load of it returns that
\* pair, and its constructor is never called.
C5_OverwrittenIsDone ==
    \A a \in Overwrites : \A name \in Comps \cap DOMAIN origin[a].values :
        /\ cell(a, name).loaded
        /\ cell(a, name).value = origin[a].values[name]
        /\ cell(a, name).err = NoErr
        /\ ctorCalls[<<a, name>>] = 0
        /\ ret[<<a, name>>] \subseteq {Result(origin[a].values[name], NoErr)}

\* C6: in a loader WithOverwrites returned, a component that is no key of
\* the values but depends on one is Pending until a Load on that loader
\* loads it again: it is loaded only by a call of its constructor or by the
\* failure of a dependency, and Load never returns the empty value for it.
C6_DependentsArePurged ==
    \A a \in Overwrites : \A name \in Comps \ DOMAIN origin[a].values :
        needsPurging(origin[a].values, name) =>
            /\ cell(a, name).loaded =>
                  \/ ctorCalls[<<a, name>>] > 0
                  \/ cell(a, name).err.kind = "DependencyLoadError"
            /\ \A r \in ret[<<a, name>>] : r.err = NoErr => r.value # Nil

\* C7: in a loader WithOverwrites returned, a component that is neither a
\* key of the values nor depends on one, and was Done in the source, is Done
\* with the value and error of the source; Load of it returns them and its
\* constructor is never called.
C7_UnrelatedIsKept ==
    \A a \in Overwrites : \A name \in Comps :
        (~needsPurging(origin[a].values, name) /\ origin[a].from[name].loaded) =>
            /\ cell(a, name).loaded
            /\ cell(a, name).value = origin[a].from[name].value
            /\ cell(a, name).err = origin[a].from[name].err
            /\ ctorCalls[<<a, name>>] = 0
            /\ ret[<<a, name>>] \subseteq
                   {Result(origin[a].from[name].value, origin[a].from[name].err)}

\* a Load on a loader WithOverwrites returned has returned a kept result
C7_Witness ==
    \E a \in Overwrites : \E name \in Comps :
        /\ ~needsPurging(origin[a].values, name)
        /\ origin[a].from[name].loaded
        /\ ret[<<a, name>>] # {}
        /\ \E other \in Comps : needsPurging(origin[a].values, other)


\* C8: WithOverwrites changes no component struct that exists, and no step
\* of a Load on the loader it returned changes a component struct of the
\* source.
C8_OverwritesLeaveSource ==
    [][/\ (\E a \in Loaders, values \in OverwriteMaps : WithOverwrites(a, values))
             => \A x \in DOMAIN heap : heap'[x] = heap[x]
       /\ \A a \in Overwrites :
             StepOf(a) =>
                 \A name \in Comps :
                     heap'[components[origin[a].a][name]] =
                         heap[components[origin[a].a][name]]]_vars

\* a Load on the loader WithOverwrites returned has returned another value
\* than the one the source has cached since before the call, and still has
C8_Witness ==
    \E a \in Overwrites : \E name \in Comps :
        /\ origin[a].from[name].loaded
        /\ origin[a].from[name].value # Nil
        /\ cell(origin[a].a, name) = origin[a].from[name]
        /\ ret[<<a, name>>] # {}
        /\ cell(a, name).value # cell(origin[a].a, name).value

\* b is a clone of a, a is a clone of b, or both are clones of one loader
CloneRelated(a, b) ==
    /\ a # b
    /\ \/ a \in Clones /\ origin[a].a = b
       \/ b \in Clones /\ origin[b].a = a
       \/ a \in Clones /\ b \in Clones /\ origin[a].a = origin[b].a

\* C9: no step of a Load on a clone changes a component struct of its
\* source or of another clone of that source, and no step of a Load on the
\* source changes a component struct of a clone.
C9_ClonesAreIndependent ==
    [][\A a \in Loaders, b \in Loaders :
          (CloneRelated(a, b) /\ StepOf(a)) =>
              \A name \in Comps :
                  heap'[components[b][name]] = heap[components[b][name]]]_vars

\* one of two clones of a loader has loaded a component that is still
\* Pending in the other clone and in the source
C9_Witness ==
    \E a \in Clones, b \in Clones : \E name \in Comps :
        /\ a # b
        /\ origin[a].a = origin[b].a
        /\ cell(a, name).loaded
        /\ ctorCalls[<<a, name>>] > 0
        /\ Pending(cell(b, name))
        /\ Pending(cell(origin[a].a, name))

\* C10: a component that was Done in the source when Clone ran is Done in
\* the clone with the same value and error, and its constructor is not
\* called there; one that was Pending or InFlight starts neither loaded nor
\* loading, so that it is loading or loaded in the clone only through a
\* Load on the clone (a call of its constructor, or a failed dependency).
C10_CloneCopiesDoneOnly ==
    \A a \in Clones : \A name \in Comps :
        LET f == origin[a].from[name]
            c == cell(a, name)
        IN  /\ f.loaded =>
                  /\ c = Cell(f.value, f.err, TRUE, TRUE)
                  /\ ctorCalls[<<a, name>>] = 0
            /\ ~f.loaded =>
                  ((c.loading \/ c.loaded) =>
                      \/ ctorCalls[<<a, name>>] > 0
                      \/ c.err.kind = "DependencyLoadError")

\* a component that was InFlight in the source when Clone ran has been
\* loaded in the clone by a call of its constructor there
C10_Witness ==
    \E a \in Clones : \E name \in Comps :
        /\ InFlight(origin[a].from[name])
        /\ cell(a, name).loaded
        /\ ctorCalls[<<a, name>>] > 0
        /\ \E other \in Comps : origin[a].from[other].loaded


(***************************************************************************)
(* C11 to C14: the checks of New.                                          *)
(***************************************************************************)
\* the dependency fields a definition declares
FieldsOf(def) == IF Len(def.in) = 0 THEN <<>> ELSE def.in[1].fields

\* the dependency edges a mapping declares
Edges(mapping) ==
    {e \in (DOMAIN mapping) \X Range(SortedNames) :
        \E k \in DOMAIN FieldsOf(mapping[e[1]]) :
            FieldsOf(mapping[e[1]])[k].Name = e[2]}

Successors(E, S) == {e[2] : e \in {d \in E : d[1] \in S}}

RECURSIVE ReachableFrom(_, _, _)
\* what is reached from S along at most k edges of E
ReachableFrom(E, S, k) ==
    IF k = 0 THEN S ELSE ReachableFrom(E, S \cup Successors(E, S), k - 1)

\* some node lies on a directed cycle of E
HasCycle(E) ==
    LET nodes == {e[1] : e \in E}
    IN  \E x \in nodes :
            x \in ReachableFrom(E, Successors(E, {x}), Cardinality(nodes))

\* the fields that name a component that is not defined
Undefined(mapping) ==
    {e \in Edges(mapping) : e[2] \notin DOMAIN mapping}

\* the components with a field whose type is not the result type of the
\* component it names
Mismatched(mapping) ==
    {name \in DOMAIN mapping :
        \E k \in DOMAIN FieldsOf(mapping[name]) :
            LET f == FieldsOf(mapping[name])[k]
            IN  /\ f.Name \in DOMAIN mapping
                /\ f.Type # resultOf(mapping[f.Name])}

\* C11: for a mapping that passes the shape, existence and type checks, New
\* returns a definition error exactly if the dependency edges have a directed
\* cycle, and the loader it returns otherwise has acyclic dependencies.
C11_ErrorIffCycle ==
    (built.called /\ Undefined(fn) = {} /\ Mismatched(fn) = {}) =>
        /\ ~panicked
        /\ (built.err # NoDefinitionError) <=> HasCycle(Edges(fn))
        /\ built.err # NoDefinitionError => components = <<>>
        /\ built.err = NoDefinitionError =>
              /\ Len(components) = 1
              /\ DOMAIN dependencies = DOMAIN fn
              /\ ~HasCycle({e \in (DOMAIN fn) \X (DOMAIN fn) :
                               e[2] \in Range(dependencies[e[1]])})

\* New has refused a mapping whose first component has no dependencies and
\* whose other components depend on each other
C11_Witness ==
    /\ built.called
    /\ built.err # NoDefinitionError
    /\ Undefined(fn) = {} /\ Mismatched(fn) = {}
    /\ DOMAIN fn = {"A", "B", "C"}
    /\ FieldsOf(fn["A"]) = <<>>
    /\ <<"B", "C">> \in Edges(fn) /\ <<"C", "B">> \in Edges(fn)

\* C12: the path New reports for a dependency cycle is a cycle of the graph:
\* first and last name are equal, no other name repeats, every consecutive
\* pair is a dependency edge, and the error names the first name of the
\* path; a self-dependency of A is reported as [A, A], and A->B, B->C, C->B
\* as [B, C, B] with B as the component, A->B->C->A as the whole cycle.
C12_ReportedPathIsCycle ==
    LET p == built.err.cycle
    IN  /\ (built.called /\ p # <<>>) =>
              /\ Len(p) >= 2
              /\ p[1] = p[Len(p)]
              /\ \A i, j \in 1 .. Len(p) - 1 : i # j => p[i] # p[j]
              /\ \A i \in 1 .. Len(p) - 1 : <<p[i], p[i + 1]>> \in Edges(fn)
              /\ built.err.Component = p[1]
        /\ (built.called /\ fn = SelfDependency) => p = <<"A", "A">>
        /\ (built.called /\ fn = CyclicDependencies) =>
              p = <<"B", "C", "B">> /\ built.err.Component = "B"
        /\ (built.called /\ fn = LongCyclicDependencies) =>
              p = <<"A", "B", "C", "A">>

\* New has reported the cycle of TestCyclicDependencies
C12_Witness ==
    /\ built.called
    /\ fn = CyclicDependencies
    /\ built.err.cycle = <<"B", "C", "B">>

\* C13: for a mapping with a dependency field that names no component of the
\* mapping, New returns a definition error and no loader; the error is
\* "depends on undefined component" when no other check has a complaint.
C13_UndefinedDependencyIsRefused ==
    (built.called /\ Undefined(fn) # {}) =>
        /\ ~panicked
        /\ built.err # NoDefinitionError
        /\ components = <<>>
        /\ Mismatched(fn) = {} =>
              built.err.message = "depends on undefined component"

\* C14: for a mapping with a dependency field whose type differs from the
\* result type of the component it names (also when that component has no
\* result type), and with no undefined dependency, New returns a type
\* mismatch error that names such a dependent component, and no loader; it
\* does not crash.
C14_TypeMismatchIsRefused ==
    (built.called /\ Mismatched(fn) # {} /\ Undefined(fn) = {}) =>
        /\ ~panicked
        /\ built.err.message = "type mismatch"
        /\ built.err.Component \in Mismatched(fn)
        /\ components = <<>>


(***************************************************************************)
(* C15 to C20: the Load protocol.                                          *)
(***************************************************************************)
\* C15: Load of a name that is no component of the loader returns an
\* UndefinedComponentError that carries the name, calls no constructor,
\* starts no goroutine and changes no component struct.
C15_UndefinedNameIsRefused ==
    [][\A a \in Loaders, name \in Names \ Comps :
          Load(a, name) =>
              /\ ret' = [ret EXCEPT ![<<a, name>>] = @ \cup
                            {Result(Nil, [kind |-> "UndefinedComponentError",
                                          trace |-> <<>>, cause |-> name])}]
              /\ heap' = heap
              /\ tasks' = tasks
              /\ ctorCalls' = ctorCalls
              /\ m' = m]_vars

\* Load of an undefined name has returned on a loader on which a goroutine
\* is inside Load
C15_Witness ==
    \E a \in Loaders, name \in Names \ Comps :
        /\ ret[<<a, name>>] # {}
        /\ \E t \in DOMAIN tasks : t.a = a

\* neither component depends on the other
Independent(x, y) == x # y /\ ~dependsOn(x, y) /\ ~dependsOn(y, x)

\* the goroutines of a.Load(name) at pc
TasksAt(B, a, name, pc) ==
    {t \in DOMAIN B : t.a = a /\ t.component = name /\ t.pc = pc}

\* C16: a Load of a component with two or more Pending dependencies starts a
\* goroutine for each of them in the same step, before it waits for any;
\* and while the constructor of one dependency is executing, the goroutine
\* started for an independent sibling can take its step into Load.
C16_SiblingsLoadInParallel ==
    /\ [](\A t \in DOMAIN tasks : \A u \in DOMAIN tasks :
            (t.a = u.a /\ t.pc = "call" /\ u.pc = "start"
                /\ Independent(t.component, u.component)) => ENABLED Start(u))
    /\ [][\A a \in Loaders, name \in Comps :
            LET P == {d \in Range(dependencies[name]) : Pending(cell(a, d))}
            IN  (Load(a, name) /\ ~cell(a, name).loaded /\ Cardinality(P) >= 2) =>
                    \A d \in P :
                        CopiesIn(Task(a, d, "start", 1, <<>>), tasks') =
                            CopiesIn(Task(a, d, "start", 1, <<>>), tasks) + 1]_vars

\* the constructors of two independent dependencies of a component are
\* executing at the same time, while the Load of that component waits
C16_Witness ==
    \E a \in Loaders, name \in Comps :
        \E x \in Range(dependencies[name]), y \in Range(dependencies[name]) :
            /\ Independent(x, y)
            /\ TasksAt(tasks, a, x, "call") # {}
            /\ TasksAt(tasks, a, y, "call") # {}
            /\ TasksAt(tasks, a, name, "wait") # {}

\* C17: once a component is Done, its value and error are never written
\* again and it stays Done.
C17_DoneNeverChanges ==
    [][\A x \in DOMAIN heap :
          heap[x].loaded =>
              /\ heap'[x].loaded
              /\ heap'[x].value = heap[x].value
              /\ heap'[x].err = heap[x].err]_vars

C19_ConstructorRunsUnlocked ==
    \A t \in DOMAIN tasks :
        t.pc = "call" =>
            /\ ~m[t.a]
            /\ \A u \in DOMAIN tasks :
                  (u.a = t.a /\ u.component # t.component
                      /\ ~dependsOn(u.component, t.component)) =>
                      /\ u.pc = "start" => ENABLED Start(u)
                      /\ u.pc = "woken" => ENABLED Wake(u)
                      /\ u.pc = "call" =>
                            ENABLED (\E env \in Environments :
                                        ConstructorReturns(u, env, FALSE))
                      /\ u.pc = "wait" =>
                            \E k \in DOMAIN dependencies[u.component] :
                                /\ dependencies[u.component][k] # t.component
                                /\ ~cell(u.a, dependencies[u.component][k]).loaded

\* one Load(A) was called; the constructor of one dependency is still
\* executing and the Load of its independent sibling has run to completion
C19_Witness ==
    \E t \in DOMAIN tasks : \E y \in Comps :
        /\ t.pc = "call"
        /\ calls = 1
        /\ Independent(t.component, y)
        /\ ~cell(t.a, t.component).loaded
        /\ cell(t.a, y).loaded
        /\ ctorCalls[<<t.a, y>>] = 1

\* C20: if every constructor that is called returns and every goroutine
\* that can run is run, every Load returns: again and again no goroutine is
\* left inside Load.
C20_EveryLoadReturns == []<>(tasks = EmptyBag)


(***************************************************************************)
(* C21: what Load makes of the constructor's results.                      *)
(***************************************************************************)
\* the terminal pair the declared shape out gives for the value and the
\* failure (or NoErr) that the constructor produced
TerminalPair(out, value, failure) ==
    CASE out = <<>> -> Result(Nil, NoErr)
      [] out = <<typeOfError>> -> Result(Nil, failure)
      [] Len(out) = 1 /\ out # <<typeOfError>> -> Result(value, NoErr)
      [] OTHER -> Result(value, failure)

\* C21: when the constructor of a component returns, Load turns its outputs
\* into the terminal pair of the declared shape (value only; value and
\* failure, which is no error when none is reported; failure only; nothing),
\* the component becomes Done with that pair, and Load returns it.
C21_OutputsBecomeTerminalPair ==
    [][\A t \in DOMAIN tasks : \A env \in Environments, fails \in BOOLEAN :
          ConstructorReturns(t, env, fails) =>
              LET pair == TerminalPair(fn[t.component].out,
                                       ConstructorValue(t.component, env, t.in),
                                       IF fails THEN ConstructorError(t.component)
                                       ELSE NoErr)
                  c    == heap'[components[t.a][t.component]]
              IN  /\ ~panicked'
                  /\ c.loaded
                  /\ Result(c.value, c.err) = pair
                  /\ pair \in ret'[<<t.a, t.component>>]]_vars

=============================================================================
